---- MODULE Spec2Model ----
(***************************************************************************)
(* Static_Allocator (src/static_allocator.cpp): a first-fit allocator that *)
(* keeps a circular, address-ordered free list inside the buffer it        *)
(* manages, and Shared_Allocator (src/shared_allocator.cpp): a reference-  *)
(* counted control header in a shared memory segment in front of such an   *)
(* arena.                                                                  *)
(*                                                                         *)
(* Addresses.  The buffer starts at byte address BaseAddr.  Block headers  *)
(* (block_h) are named by their unit index u: the header at byte address   *)
(* free_memory_map + u * sizeof(block_h).  Unit order is address order.    *)
(* size_t and pointer arithmetic wrap modulo SizeMod.                      *)
(***************************************************************************)
EXTENDS Integers, Sequences, FiniteSets, TLC

\* ---------------------------------------------------------------- widths
\* size_t / pointer arithmetic is taken modulo SizeMod (a narrow size_t: the
\* wrap-around cases of the 64-bit type happen at SizeMod instead of 2^64).
SizeMod == 65536

\* sizeof(block_h): two words padded to max_align_t (x86-64).
UnitSize == 32

\* sizeof(allocator_info_t): five words (x86-64).
InfoSize == 40

\* sizeof(T) for T = int, the instantiation main() uses.
SizeofT == 4

\* Address of the managed buffer (memory_map) in the process.
BaseAddr == 4096

\* nullptr as a block_h pointer (no unit).
NULL == 0 - 1

\* ---------------------------------------------------------------- bounds
\* Units of the initial free block of the arenas explored.
ArenaUnits == 6

\* Deallocate is explored while free_size is at most this many units above
\* the value the constructor set.
MaxOvercount == 6

\* Allocations a caller holds at one time.
MaxLive == 3

\* Allocations a caller holds at one time where its requests wrap in size_t.
MaxWrapLive == 2

\* Allocations held at one time where several Static_Allocator objects are
\* in use.
MaxObjectLive == 2

\* Shared_Allocator objects in existence at one time, over all processes.
MaxSlots == 3

\* Calls of allocate and deallocate each of the two racing processes makes.
MaxRaceCalls == 3

\* unsigned int arithmetic (ref_count) is taken modulo UIntMod.
UIntMod == 65536

\* ------------------------------------------------------------- variables
VARIABLES
    info,   \* allocator_info_t installed at the front of the buffer
    mem,    \* the block_h headers in the buffer, by unit index
    live,   \* observer: allocations returned and not yet freed
    last,   \* observer: the last call, its argument and its outcome
    rt,     \* observer: snapshot taken before the last successful allocate
    scen,   \* observer: progress of "three equal allocations, then three frees"
    hdr,    \* shared_map_info_t of each shared memory segment
    maps,   \* <<process, segment>>: the segment is mapped in the process
    handles,\* per process and segment: its Shared_Allocator objects whose
            \* d_shared_map_info_p is that segment's header
    proc,   \* each process: where it is in a constructor or destructor
    obs,    \* observer: what has been done to each segment so far
    sa,     \* the Static_Allocator objects: d_allocator_info_p of each
    own,    \* observer: the object through which the last block was allocated
    via,    \* observer: that object and the one through which it was freed at once
    call    \* each process: where it is in an allocate_b or deallocate call

arenaVars == <<info, mem, live, last, rt, scen>>

sharedVars == <<hdr, maps, handles, proc, obs>>

\* What the calls on one Static_Allocator object by one caller, and the
\* constructors and destructors of Shared_Allocator, leave alone.
frameVars == <<sa, own, via, call>>

vars == <<info, mem, live, last, rt, scen, hdr, maps, handles, proc, obs,
          sa, own, via, call>>

Units == 0 .. ArenaUnits

\* Static_Allocator(void *, size_t): the capacity check.
minimum_memory_size == InfoSize + 2 * UnitSize

\* Capacities handed to the constructor: a whole number of units, and one
\* that leaves a remainder smaller than a unit (as main's 4096 does).
Capacities ==
    { minimum_memory_size + ArenaUnits * UnitSize,
      minimum_memory_size + ArenaUnits * UnitSize + (UnitSize - 8) }

\* Static_Allocator(void *, size_t): the header after construction.
Construct(capacity) ==
    [ static_memory_map |-> BaseAddr,
      capacity          |-> capacity,
      free_memory_map   |-> BaseAddr + minimum_memory_size - 2 * UnitSize,
      free_size         |-> capacity - minimum_memory_size,
      free_list         |-> NULL ]

\* Byte address of the block header at unit u.
AddrOf(inf, u) == inf.free_memory_map + u * UnitSize

\* The unit whose header lies at byte address a (a is unit aligned).
UnitOf(inf, a) == (a - inf.free_memory_map) \div UnitSize

\* free_size as the constructor set it.
InitialFree(inf) == inf.capacity - minimum_memory_size

\* ------------------------------------------------------------ allocate_b
\* allocate: n_bytes = n_obj * sizeof(T), in size_t.
BytesOf(n_obj) == (n_obj * SizeofT) % SizeMod

\* allocate_b: blocks needed, one extra for the header, in size_t.
BlocksNeeded(n_bytes) ==
    (((n_bytes + UnitSize - 1) % SizeMod) \div UnitSize + 1) % SizeMod

\* allocate_b: the capacity check.
Insufficient(inf, n_blocks) ==
    (n_blocks * UnitSize) % SizeMod > inf.free_size

\* An initial list whose block is one unit longer than free_size holds.
BuildOver(inf, m) ==
    [ info |-> [inf EXCEPT !.free_list = 0],
      mem  |-> [m EXCEPT ![0] = [next |-> 1, size |-> 0],
                         ![1] = [next |-> 0,
                                 size |-> inf.free_size \div UnitSize + 1]] ]

\* allocate_b: the initial list, built when free_list is NULL: a zero-size
\* head at unit 0 and one block at unit 1 holding free_size / unit_size units.
BuildList(inf, m) ==
    [ info |-> [inf EXCEPT !.free_list = 0],
      mem  |-> [m EXCEPT ![0] = [next |-> 1, size |-> 0],
                         ![1] = [next |-> 0,
                                 size |-> inf.free_size \div UnitSize]] ]

\* allocate_b: free_size after handing out n_blocks.
TakeBytes(free_size, n_blocks) ==
    (free_size - n_blocks * UnitSize) % SizeMod

\* A split that hands out the low end of the block found and leaves the
\* high end in the list.
CarveFront(inf, m, lst, curr, n_blocks) ==
    LET rest == m[curr].size - n_blocks
        m1   == [[m EXCEPT ![curr].size = n_blocks]
                    EXCEPT ![curr + n_blocks] = [next |-> m[curr].next, size |-> rest],
                           ![lst].next = IF rest = 0 THEN m[curr].next
                                         ELSE curr + n_blocks]
    IN  [ status |-> "ok",
          ptr    |-> AddrOf(inf, curr + 1),
          blk    |-> curr,
          units  |-> n_blocks,
          info   |-> [inf EXCEPT !.free_list = lst,
                                 !.free_size = TakeBytes(inf.free_size, n_blocks)],
          mem    |-> m1 ]

\* A split that leaves the size of the block found as it was.
CarveNoShrink(inf, m, lst, curr, n_blocks) ==
    LET exact == m[curr].size = n_blocks
        rest  == m[curr].size - n_blocks
        blk   == IF exact THEN curr ELSE curr + rest
        m1    == IF exact
                 THEN [m EXCEPT ![lst].next = m[curr].next]
                 ELSE [m EXCEPT ![curr + rest].size = n_blocks]
    IN  [ status |-> "ok",
          ptr    |-> AddrOf(inf, blk + 1),
          blk    |-> blk,
          units  |-> n_blocks,
          info   |-> [inf EXCEPT !.free_list = lst,
                                 !.free_size = TakeBytes(inf.free_size, n_blocks)],
          mem    |-> m1 ]

\* An allocation that leaves free_list where it was.
CarveNoRotate(inf, m, lst, curr, n_blocks) ==
    LET exact == m[curr].size = n_blocks
        rest  == m[curr].size - n_blocks
        blk   == IF exact THEN curr ELSE curr + rest
        m1    == IF exact
                 THEN [m EXCEPT ![lst].next = m[curr].next]
                 ELSE [[m EXCEPT ![curr].size = rest]
                          EXCEPT ![curr + rest].size = n_blocks]
    IN  [ status |-> "ok",
          ptr    |-> AddrOf(inf, blk + 1),
          blk    |-> blk,
          units  |-> n_blocks,
          info   |-> [inf EXCEPT !.free_size = TakeBytes(inf.free_size, n_blocks)],
          mem    |-> m1 ]

\* allocate_b: the block found is unlinked (exact fit) or its tail is cut off.
Carve(inf, m, lst, curr, n_blocks) ==
    LET exact == m[curr].size = n_blocks
        rest  == m[curr].size - n_blocks
        blk   == IF exact THEN curr ELSE curr + rest
        m1    == IF exact
                 THEN [m EXCEPT ![lst].next = m[curr].next]
                 ELSE [[m EXCEPT ![curr].size = rest]
                          EXCEPT ![curr + rest].size = n_blocks]
    IN  [ status |-> "ok",
          ptr    |-> AddrOf(inf, blk + 1),
          blk    |-> blk,
          units  |-> n_blocks,
          info   |-> [inf EXCEPT !.free_list = lst,
                                 !.free_size = TakeBytes(inf.free_size, n_blocks)],
          mem    |-> m1 ]

\* The null result: nothing found.
NullResult(inf, m) ==
    [ status |-> "null", ptr |-> 0, blk |-> NULL, units |-> 0,
      info |-> inf, mem |-> m ]

\* A call that throws std::invalid_argument.
Thrown(inf, m) ==
    [ status |-> "invalid_argument", ptr |-> 0, blk |-> NULL, units |-> 0,
      info |-> inf, mem |-> m ]

\* A walk that ends at the zero-size head of the list.
AtListHead(inf, curr) == curr = 0

\* allocate_b: the walk is back where it began, curr == free_list.
WalkedRound(inf, curr) == curr = inf.free_list

\* allocate_b: the first-fit loop, from curr = last->next.
RECURSIVE Search(_, _, _, _, _)
Search(inf, m, lst, curr, n_blocks) ==
    IF m[curr].size >= n_blocks
    THEN Carve(inf, m, lst, curr, n_blocks)
    ELSE IF WalkedRound(inf, curr)
         THEN NullResult(inf, m)
         ELSE Search(inf, m, curr, m[curr].next, n_blocks)

\* allocate_b(n_bytes) on a constructed allocator.
allocate_b(inf, m, n_bytes) ==
    IF n_bytes = 0
    THEN Thrown(inf, m)
    ELSE LET n_blocks == BlocksNeeded(n_bytes) IN
         IF Insufficient(inf, n_blocks)
         THEN NullResult(inf, m)
         ELSE LET st == IF inf.free_list = NULL
                        THEN BuildList(inf, m)
                        ELSE [info |-> inf, mem |-> m]
                  lst == st.info.free_list
              IN  Search(st.info, st.mem, lst, st.mem[lst].next, n_blocks)

\* allocate(n_obj).
allocate(inf, m, n_obj) == allocate_b(inf, m, BytesOf(n_obj))

\* ------------------------------------------------------------ deallocate
\* deallocate: the pointer checks (nullptr, then the address range).
PointerRejected(inf, ptr, n_obj) ==
    LET obj_addr_start    == ptr
        obj_addr_end      == (ptr + BytesOf(n_obj)) % SizeMod
        static_addr_start == inf.static_memory_map
        static_addr_end   == inf.static_memory_map + inf.capacity
    IN  \/ ptr = 0
        \/ ~(obj_addr_start > static_addr_start /\ obj_addr_end <= static_addr_end)

\* deallocate: the loop that locates the insertion point p for block b.
\* The loop has no exit of its own: NULL stands for a walk that is still
\* going after `steps` nodes, which is more than the list can hold.
RECURSIVE LocateWithin(_, _, _, _)
LocateWithin(m, p, b, steps) ==
    IF steps = 0
    THEN NULL
    ELSE IF b >= p /\ b < m[p].next
         THEN p
         ELSE IF p >= m[p].next /\ b > p
              THEN p
              ELSE IF p >= m[p].next /\ b < m[p].next
                   THEN p
                   ELSE LocateWithin(m, m[p].next, b, steps - 1)

Locate(m, p, b) == LocateWithin(m, p, b, 2 * (ArenaUnits + 1))

\* A deallocate that links b in front of p->next and never merges the two.
LinkAhead(m, p, b) == [m EXCEPT ![b].next = m[p].next]

\* deallocate: forward merge of b with p->next, or link b in front of it.
ForwardMerge(m, p, b) ==
    LET nxt == m[p].next IN
    IF b + m[b].size = nxt
    THEN [m EXCEPT ![b] = [size |-> m[b].size + m[nxt].size,
                           next |-> m[nxt].next]]
    ELSE [m EXCEPT ![b].next = nxt]

\* A deallocate that also merges b into p where b is the unit after p's
\* header, whatever p's size.
MergeBehindHeader(m, p, b) ==
    IF p + m[p].size = b \/ p + 1 = b
    THEN [m EXCEPT ![p] = [size |-> m[p].size + m[b].size,
                           next |-> m[b].next]]
    ELSE [m EXCEPT ![p].next = b]

\* A deallocate that links p to b and never merges b into p.
LinkOnly(m, p, b) == [m EXCEPT ![p].next = b]

\* deallocate: backward merge of b into p, or link p to b.
BackwardMerge(m, p, b) ==
    IF p + m[p].size = b
    THEN [m EXCEPT ![p] = [size |-> m[p].size + m[b].size,
                           next |-> m[b].next]]
    ELSE [m EXCEPT ![p].next = b]

\* deallocate: free_size after the merges, from b->d.size as it is then.
GiveBytes(free_size, m, b) ==
    (free_size + m[b].size * UnitSize) % SizeMod

\* A call that never returns (the loop of deallocate goes round for ever).
Hung(inf, m) ==
    [ status |-> "hang", ptr |-> 0, blk |-> NULL, units |-> 0,
      info |-> inf, mem |-> m ]

\* deallocate: the list update for block b, once the pointer checks passed.
Release(inf, m, b) ==
    LET p  == Locate(m, inf.free_list, b)
        m1 == ForwardMerge(m, p, b)
        m2 == BackwardMerge(m1, p, b)
    IN  IF p = NULL
        THEN Hung(inf, m)
        ELSE [ status |-> "ok", ptr |-> 0, blk |-> b, units |-> m[b].size,
               info |-> [inf EXCEPT !.free_list = p,
                                    !.free_size = GiveBytes(inf.free_size, m2, b)],
               mem  |-> m2 ]

\* deallocate(ptr, n_obj) for a unit-aligned ptr into a built arena.
deallocate(inf, m, ptr, n_obj) ==
    IF PointerRejected(inf, ptr, n_obj)
    THEN Thrown(inf, m)
    ELSE Release(inf, m, UnitOf(inf, ptr) - 1)

\* ---------------------------------------------------- free_size, unified
\* free_size().
free_size(inf) == inf.free_size

\* unified(): false while the list is unbuilt, else (b->next)->next == b.
unified(inf, m) ==
    IF inf.free_list = NULL
    THEN FALSE
    ELSE m[m[inf.free_list].next].next = inf.free_list

\* ------------------------------------------------------------- observers
\* The nodes of the free list, walked from the head until it closes.
RECURSIVE Walk(_, _, _, _)
Walk(m, start, u, fuel) ==
    IF fuel = 0 \/ u = NULL
    THEN {}
    ELSE {u} \cup (IF m[u].next = start THEN {} ELSE Walk(m, start, m[u].next, fuel - 1))

ListNodes(inf, m) ==
    IF inf.free_list = NULL THEN {}
    ELSE Walk(m, inf.free_list, inf.free_list, ArenaUnits + 2)

\* Steps after which a walk is taken to go on for ever: more than twice the
\* nodes a list can have.
WalkFuel == 2 * (ArenaUnits + 2)

\* The nodes the loop of allocate_b examines for n_blocks, in order, from
\* curr on; NULL at the end stands for a walk still going after fuel nodes.
RECURSIVE Examined(_, _, _, _, _)
Examined(inf, m, curr, n_blocks, fuel) ==
    IF fuel = 0
    THEN <<NULL>>
    ELSE IF m[curr].size >= n_blocks \/ WalkedRound(inf, curr)
         THEN <<curr>>
         ELSE <<curr>> \o Examined(inf, m, m[curr].next, n_blocks, fuel - 1)

\* The nodes the loop of deallocate visits as p for block b, in order; NULL
\* at the end stands for a walk still going after fuel nodes.
RECURSIVE Scanned(_, _, _, _)
Scanned(m, p, b, fuel) ==
    IF fuel = 0
    THEN <<NULL>>
    ELSE IF \/ b >= p /\ b < m[p].next
            \/ p >= m[p].next /\ b > p
            \/ p >= m[p].next /\ b < m[p].next
         THEN <<p>>
         ELSE <<p>> \o Scanned(m, m[p].next, b, fuel - 1)

\* No node occurs twice in the sequence.
NoRepeat(seq) == \A i \in 1 .. Len(seq) : \A j \in 1 .. Len(seq) : seq[i] = seq[j] => i = j

\* The elements of the sequence.
Range(seq) == { seq[i] : i \in 1 .. Len(seq) }

\* The free blocks proper: the list nodes other than the zero-size head.
FreeBlocks(inf, m) == { <<u, m[u].size>> : u \in ListNodes(inf, m) \ {0} }

\* The nodes in the order the loop of allocate_b examines them: from
\* free_list->next on, free_list itself last.
RECURSIVE OrderFrom(_, _, _, _)
OrderFrom(m, head, curr, fuel) ==
    IF fuel = 0 \/ curr = NULL
    THEN <<>>
    ELSE IF curr = head
         THEN <<curr>>
         ELSE <<curr>> \o OrderFrom(m, head, m[curr].next, fuel - 1)

SearchOrder(inf, m) ==
    OrderFrom(m, inf.free_list, m[inf.free_list].next, ArenaUnits + 2)

\* Where in that order the first node of at least n_blocks units stands
\* (0: there is none).
FirstFitIndex(inf, m, n_blocks) ==
    LET ord  == SearchOrder(inf, m)
        fits == { i \in 1 .. Len(ord) : m[ord[i]].size >= n_blocks }
    IN  IF fits = {} THEN 0
        ELSE CHOOSE i \in fits : \A j \in fits : i <= j

\* The header and block headers allocate_b searches: as they are, or as the
\* first call builds them.
Searched(inf, m) ==
    IF inf.free_list = NULL THEN BuildList(inf, m) ELSE [info |-> inf, mem |-> m]

\* Bytes held by the live allocations, in whole units.
RECURSIVE SumUnits(_)
SumUnits(S) ==
    IF S = {} THEN 0
    ELSE LET a == CHOOSE x \in S : TRUE IN a.units + SumUnits(S \ {a})

LiveBytes == SumUnits(live) * UnitSize

NoCall == [op |-> "none", exceeds |-> FALSE, status |-> "none"]

NoSnap == [stage |-> "none", ptr |-> 0, free_size |-> 0, blocks |-> {},
           built |-> FALSE, nolive |-> FALSE]

Snap(ptr) == [stage |-> "alloc", ptr |-> ptr, free_size |-> free_size(info),
              blocks |-> FreeBlocks(info, mem),
              built |-> info.free_list # NULL, nolive |-> live = {}]

ScenOff == [stage |-> 0 - 1, n |-> 0]

\* ------------------------------------------------------ Shared_Allocator
\* The processes of main(): the parent, which constructs the allocators, and
\* the child its fork() creates.
Procs == {1, 2}

\* The segments, one per name handed to the constructor.
Regions == {1, 2}

\* No segment: the process is in no constructor or destructor.
NoRegion == 0

\* A segment that no constructor has set up yet.
NoHeader ==
    [ made |-> FALSE, ref_count |-> 0, sem |-> 0, sem_live |-> FALSE,
      linked |-> FALSE ]

\* Shared_Allocator(char const *, size_t): the header it installs, with the
\* named object created, ref_count 1 and the semaphore initialised to 1.
NewHeader ==
    [ made |-> TRUE, ref_count |-> 1, sem |-> 1, sem_live |-> TRUE,
      linked |-> TRUE ]

Absent == [pc |-> "absent", r |-> NoRegion, tmp |-> 0, destroy |-> FALSE]

Idle == [pc |-> "idle", r |-> NoRegion, tmp |-> 0, destroy |-> FALSE]

\* A process ended by a signal or by an exception nothing catches.
Dead == [pc |-> "dead", r |-> NoRegion, tmp |-> 0, destroy |-> FALSE]

\* What the observer holds for a segment: expect, the count after the
\* stores made so far if none was lost; owed, 1 + copy constructions
\* completed - destructors completed, and peak, the most owed has been;
\* torn, teardowns begun (up to 2); early, a teardown began while an object
\* or a positive count remained; late, a destructor took the semaphore of
\* a segment torn down before.
NoObs ==
    [ expect |-> 0, owed |-> 0, peak |-> 0, torn |-> 0, early |-> FALSE,
      late |-> FALSE, plain |-> TRUE ]

NewObs == [NoObs EXCEPT !.expect = 1, !.owed = 1, !.peak = 1]

\* owed is kept while the segment has seen only its constructor, copy
\* constructions and destructors, in a process that is still running.
NotPlain(o) == [o EXCEPT !.plain = FALSE, !.owed = 0, !.peak = 0]

Owed(o, d) ==
    IF o.plain
    THEN [o EXCEPT !.owed = @ + d,
                   !.peak = IF o.owed + d > @ THEN o.owed + d ELSE @]
    ELSE o

\* A destructor that takes two off ref_count.
DecTwice(rc) == (rc - 2) % UIntMod

\* Copy constructor: ref_count++ in unsigned int.
IncRef(rc) == (rc + 1) % UIntMod

\* Destructor: ref_count -= 1 in unsigned int.
DecRef(rc) == (rc - 1) % UIntMod

\* A destructor that tears down when its decrement leaves one.
DestroyAtOne(rc) == rc = 1

\* Destructor: destroy = (ref_count == 0).
DestroyTest(rc) == rc = 0

\* Stores to ref_count are explored while the value stored is within
\* MaxSlots of zero, on either side of the wrap.
Explored(rc) ==
    \/ rc <= MaxSlots
    \/ rc >= UIntMod - MaxSlots

\* A take_sem that returns whatever the semaphore's value.
TakeAnyway(sem) == TRUE

\* take_sem: sem_wait returns once the semaphore's value is positive.
CanTake(sem) == sem > 0

\* A drop_sem that leaves the semaphore's value as it is.
SemKept(sem) == sem

\* drop_sem: sem_post adds 1 to the semaphore's value.
SemPost(sem) == sem + 1

\* Process p holds an object that refers to segment r.
Holds(p, r) == handles[p][r] > 0

\* Some object in some process refers to segment r.
HandleExists(r) == \E p \in Procs : Holds(p, r)

\* The objects process p holds.
RECURSIVE SumOver(_, _)
SumOver(f, S) ==
    IF S = {} THEN 0
    ELSE LET x == CHOOSE y \in S : TRUE IN f[x] + SumOver(f, S \ {x})

Held(p) == SumOver(handles[p], Regions)

\* The objects of all processes, those under construction included.
HeldAll ==
    SumOver([p \in Procs |->
                Held(p) + (IF proc[p].pc \in {"copy_take", "copy_read",
                                               "copy_write", "copy_drop"}
                           THEN 1 ELSE 0)], Procs)

\* Process p is between take_sem and drop_sem on segment r.
InSection(p, r) ==
    /\ proc[p].r = r
    /\ proc[p].pc \in {"copy_read", "copy_write", "copy_drop",
                       "rel_read", "rel_write", "rel_test", "rel_drop"}

\* Process p is at a step that reads or writes the header of its segment.
TouchesHeader(p) ==
    proc[p].pc \in {"copy_take", "copy_read", "copy_write", "copy_drop",
                    "rel_take", "rel_read", "rel_write", "rel_test", "rel_drop",
                    "td_sem", "td_name"}

Mapped(p) == <<p, proc[p].r>> \in maps

\* The process ends: its objects and its mappings go with it.
Dies(p) ==
    /\ proc' = [proc EXCEPT ![p] = Dead]
    /\ handles' = [handles EXCEPT ![p] = [r \in Regions |-> 0]]
    /\ maps' = { m \in maps : m[1] # p }
    /\ obs' = [r \in Regions |->
                 IF Holds(p, r) \/ proc[p].r = r
                 THEN NotPlain(obs[r]) ELSE obs[r]]

\* ------------------------------------------------ Static_Allocator objects
\* The Static_Allocator objects of a caller: the one its constructor made
\* and one more.
Objects == {1, 2}

\* No object (its storage holds nothing yet).
NoObject == [p |-> NULL, by |-> "none"]

\* Static_Allocator(void *, size_t): d_allocator_info_p = static_memory_map.
Made == [p |-> BaseAddr, by |-> "constructor"]

\* A copy that duplicates the header elsewhere and points there.
DuplicatedPointer(origin) == origin.p + InfoSize

\* Static_Allocator(const Static_Allocator &): the pointer of origin.
CopiedPointer(origin) == origin.p

\* operator=(Static_Allocator<U> &&): the pointer of origin, reinterpreted.
MovedPointer(origin) == origin.p

\* The object exists.
Exists(h) == sa[h].by # "none"

\* The header an object's calls read and write: the one at its pointer.
RefersToArena(h) == sa[h].p = info.static_memory_map

\* A process that is in no call: the locals of allocate_b (n_blocks, last,
\* curr) and the value read for free_size -= ... (tmp) are unset; ret is the
\* block the process holds from its last allocate and n_obj the count it
\* asked for; over tells that one of its calls began while the other
\* process was inside a call, calls how many calls it has made.
NoCallState ==
    [ pc |-> "out", op |-> "none", n_blocks |-> 0, lst |-> NULL, curr |-> NULL,
      b |-> NULL, p |-> NULL, tmp |-> 0,
      ret |-> NULL, n_obj |-> 0, over |-> FALSE, calls |-> 0 ]

\* ------------------------------------------------------------ input sets
\* Object counts given to allocate: zero, a 2- and a 3-unit request, and one
\* larger than any arena.
ObjCounts ==
    { 0, 1, 9, ((ArenaUnits + 4) * UnitSize) \div SizeofT }

\* Object counts whose byte count wraps in size_t: to 0 and to sizeof(T).
WrapObjCounts ==
    { SizeMod \div SizeofT, SizeMod \div SizeofT + 1 }

\* Byte counts given to allocate_b: zero, the request that takes the whole
\* initial block, and one larger than any arena.
ByteCounts ==
    { 0, (ArenaUnits - 1) * UnitSize, (ArenaUnits + 4) * UnitSize }

\* Byte counts whose rounding up to units wraps in size_t: SIZE_MAX.
WrapByteCounts ==
    { SizeMod - 1 }

\* The requests that get past the zero check and the capacity check.
Passing ==
    { n_obj \in ObjCounts :
        /\ BytesOf(n_obj) # 0
        /\ ~Insufficient(info, BlocksNeeded(BytesOf(n_obj))) }

\* The block counts of the requests that get past both checks.
PassingBlocks ==
    { BlocksNeeded(BytesOf(n_obj)) : n_obj \in Passing }
       \cup { BlocksNeeded(n_bytes) :
                 n_bytes \in { x \in ByteCounts :
                                 x # 0 /\ ~Insufficient(info, BlocksNeeded(x)) } }

\* Pointers that are not inside the buffer: nullptr, an address below it,
\* the buffer's own first byte, an address past its end.
OutsidePointers(inf) ==
    { 0, BaseAddr - UnitSize, BaseAddr, BaseAddr + inf.capacity + UnitSize }

\* ------------------------------------------------------------------ Init
\* No segment exists yet; process 1 runs and holds no allocator.
InitShared ==
    /\ hdr = [r \in Regions |-> NoHeader]
    /\ maps = {}
    /\ handles = [p \in Procs |-> [r \in Regions |-> 0]]
    /\ proc = [p \in Procs |-> IF p = 1 THEN Idle ELSE Absent]
    /\ obs = [r \in Regions |-> NoObs]

InitArena ==
    /\ mem = [u \in Units |-> [next |-> NULL, size |-> 0]]
    /\ live = {}
    /\ last = NoCall
    /\ rt = NoSnap
    /\ scen = [stage |-> 0, n |-> 0]

\* One Static_Allocator object exists, made by the constructor; no process
\* is inside a call.
InitFrame ==
    /\ sa = [h \in Objects |-> IF h = 1 THEN Made ELSE NoObject]
    /\ own = 0
    /\ via = <<0, 0>>
    /\ call = [p \in Procs |-> NoCallState]

Init ==
    /\ \E capacity \in Capacities : info = Construct(capacity)
    /\ InitArena
    /\ InitShared
    /\ InitFrame

\* --------------------------------------------------------------- actions
AfterAlloc(res, opname, bytes, n_obj) ==
    /\ res.status = "ok" => Cardinality(live) < MaxLive
    /\ info' = res.info
    /\ mem' = res.mem
    /\ last' = [op |-> opname, exceeds |-> bytes > free_size(info),
                status |-> res.status]
    /\ live' = IF res.status = "ok"
               THEN live \cup {[b |-> res.blk, units |-> res.units, n_obj |-> n_obj]}
               ELSE live
    /\ rt' = IF res.status = "ok" THEN Snap(res.ptr) ELSE NoSnap

\* A caller invokes allocate(n_obj).
Allocate ==
    \E n_obj \in ObjCounts :
        LET res == allocate(info, mem, n_obj) IN
        /\ AfterAlloc(res, "allocate", n_obj * SizeofT, n_obj)
        /\ UNCHANGED <<sharedVars, frameVars>>
        /\ scen' = IF res.status = "ok" /\ scen.stage = 0
                   THEN [stage |-> 1, n |-> n_obj]
                   ELSE IF res.status = "ok" /\ scen.stage \in {1, 2} /\ scen.n = n_obj
                        THEN [scen EXCEPT !.stage = @ + 1]
                        ELSE ScenOff

\* A caller invokes allocate_b(n_bytes).
AllocateB ==
    \E n_bytes \in ByteCounts :
        LET res == allocate_b(info, mem, n_bytes) IN
        /\ AfterAlloc(res, "allocate_b", n_bytes, n_bytes \div SizeofT)
        /\ UNCHANGED <<sharedVars, frameVars>>
        /\ scen' = ScenOff

\* A caller returns a live allocation with the object count it asked for.
Deallocate ==
    \E a \in live :
        LET ptr == AddrOf(info, a.b + 1)
            res == deallocate(info, mem, ptr, a.n_obj)
        IN
        /\ res.info.free_size <= InitialFree(info) + MaxOvercount * UnitSize
        /\ info' = res.info
        /\ mem' = res.mem
        /\ last' = [op |-> "deallocate", exceeds |-> FALSE, status |-> res.status]
        /\ live' = IF res.status = "ok" THEN live \ {a} ELSE live
        /\ UNCHANGED <<sharedVars, frameVars>>
        /\ rt' = IF res.status = "ok" /\ rt.stage = "alloc" /\ rt.ptr = ptr
                 THEN [rt EXCEPT !.stage = "done"]
                 ELSE NoSnap
        /\ scen' = IF res.status = "ok" /\ scen.stage \in {3, 4, 5}
                   THEN [scen EXCEPT !.stage = @ + 1]
                   ELSE ScenOff

\* A caller hands deallocate a pointer that is not inside the buffer.
DeallocateOutside ==
    \E ptr \in OutsidePointers(info), n_obj \in {1, 9} :
        LET res == deallocate(info, mem, ptr, n_obj) IN
        /\ info' = res.info
        /\ mem' = res.mem
        /\ last' = [op |-> "deallocate_outside", exceeds |-> FALSE,
                    status |-> res.status]
        /\ UNCHANGED live
        /\ UNCHANGED <<sharedVars, frameVars>>
        /\ rt' = NoSnap
        /\ scen' = ScenOff

Next ==
    \/ Allocate
    \/ AllocateB
    \/ Deallocate
    \/ DeallocateOutside

Spec == Init /\ [][Next]_vars

\* ------------------------------------------------ Shared_Allocator steps
\* Shared_Allocator(char const *, size_t): shm_open, ftruncate, mmap, the
\* header, sem_init; the new object refers to the new segment.
Create(p) ==
    \E r \in Regions :
        /\ proc[p].pc = "idle"
        /\ ~hdr[r].made
        /\ HeldAll < MaxSlots
        /\ hdr' = [hdr EXCEPT ![r] = NewHeader]
        /\ maps' = maps \cup {<<p, r>>}
        /\ handles' = [handles EXCEPT ![p][r] = @ + 1]
        /\ obs' = [obs EXCEPT ![r] = NewObs]
        /\ UNCHANGED proc
        /\ UNCHANGED <<arenaVars, frameVars>>

\* Copy constructor, entered: the pointers of origin are copied.
CopyBegin(p) ==
    \E r \in Regions :
        /\ proc[p].pc = "idle"
        /\ Holds(p, r)
        /\ HeldAll < MaxSlots
        /\ proc' = [proc EXCEPT ![p] = [pc |-> "copy_take", r |-> r,
                                        tmp |-> 0, destroy |-> FALSE]]
        /\ UNCHANGED <<hdr, maps, handles, obs>>
        /\ UNCHANGED <<arenaVars, frameVars>>

\* Destructor, entered: the object's lifetime has ended.
ReleaseBegin(p) ==
    \E r \in Regions :
        /\ proc[p].pc = "idle"
        /\ Holds(p, r)
        /\ proc' = [proc EXCEPT ![p] = [pc |-> "rel_take", r |-> r,
                                        tmp |-> 0, destroy |-> FALSE]]
        /\ handles' = [handles EXCEPT ![p][r] = @ - 1]
        /\ UNCHANGED <<hdr, maps, obs>>
        /\ UNCHANGED <<arenaVars, frameVars>>

\* take_sem: sem_wait on the header's semaphore.
TakeSem(p) ==
    LET r == proc[p].r IN
    /\ proc[p].pc \in {"copy_take", "rel_take"}
    /\ Mapped(p)
    /\ CanTake(hdr[r].sem)
    /\ hdr' = [hdr EXCEPT ![r].sem = @ - 1]
    /\ proc' = [proc EXCEPT ![p].pc = IF @ = "copy_take" THEN "copy_read" ELSE "rel_read"]
    /\ obs' = [obs EXCEPT ![r].late = @ \/ (proc[p].pc = "rel_take" /\ obs[r].torn > 0)]
    /\ UNCHANGED <<maps, handles>>
    /\ UNCHANGED <<arenaVars, frameVars>>

\* ref_count++ / ref_count -= 1: the load.
ReadCount(p) ==
    LET r == proc[p].r IN
    /\ proc[p].pc \in {"copy_read", "rel_read"}
    /\ Mapped(p)
    /\ proc' = [proc EXCEPT ![p].tmp = hdr[r].ref_count,
                            ![p].pc = IF @ = "copy_read" THEN "copy_write" ELSE "rel_write"]
    /\ UNCHANGED <<hdr, maps, handles, obs>>
    /\ UNCHANGED <<arenaVars, frameVars>>

\* ref_count++: the store.
WriteUp(p) ==
    LET r == proc[p].r IN
    /\ proc[p].pc = "copy_write"
    /\ Mapped(p)
    /\ Explored(IncRef(proc[p].tmp))
    /\ hdr' = [hdr EXCEPT ![r].ref_count = IncRef(proc[p].tmp)]
    /\ proc' = [proc EXCEPT ![p].pc = "copy_drop"]
    /\ obs' = [obs EXCEPT ![r].expect = IncRef(@)]
    /\ UNCHANGED <<maps, handles>>
    /\ UNCHANGED <<arenaVars, frameVars>>

\* ref_count -= 1: the store.
WriteDown(p) ==
    LET r == proc[p].r IN
    /\ proc[p].pc = "rel_write"
    /\ Mapped(p)
    /\ Explored(DecRef(proc[p].tmp))
    /\ hdr' = [hdr EXCEPT ![r].ref_count = DecRef(proc[p].tmp)]
    /\ proc' = [proc EXCEPT ![p].pc = "rel_test"]
    /\ obs' = [obs EXCEPT ![r].expect = DecRef(@)]
    /\ UNCHANGED <<maps, handles>>
    /\ UNCHANGED <<arenaVars, frameVars>>

\* destroy = (ref_count == 0), read from the header.
TestCount(p) ==
    LET r == proc[p].r IN
    /\ proc[p].pc = "rel_test"
    /\ Mapped(p)
    /\ proc' = [proc EXCEPT ![p].destroy = DestroyTest(hdr[r].ref_count),
                            ![p].pc = "rel_drop"]
    /\ UNCHANGED <<hdr, maps, handles, obs>>
    /\ UNCHANGED <<arenaVars, frameVars>>

\* drop_sem of the copy constructor: the new object exists from here on.
CopyDrop(p) ==
    LET r == proc[p].r IN
    /\ proc[p].pc = "copy_drop"
    /\ Mapped(p)
    /\ hdr' = [hdr EXCEPT ![r].sem = SemPost(@)]
    /\ handles' = [handles EXCEPT ![p][r] = @ + 1]
    /\ proc' = [proc EXCEPT ![p] = Idle]
    /\ obs' = [obs EXCEPT ![r] = Owed(@, 1)]
    /\ UNCHANGED maps
    /\ UNCHANGED <<arenaVars, frameVars>>

\* drop_sem of the destructor, then the branch on destroy.
ReleaseDrop(p) ==
    LET r == proc[p].r IN
    /\ proc[p].pc = "rel_drop"
    /\ Mapped(p)
    /\ hdr' = [hdr EXCEPT ![r].sem = SemPost(@)]
    /\ proc' = [proc EXCEPT ![p] = IF proc[p].destroy
                                    THEN [proc[p] EXCEPT !.pc = "td_sem"]
                                    ELSE Idle]
    /\ obs' = [obs EXCEPT ![r] = IF proc[p].destroy THEN @ ELSE Owed(@, 0 - 1)]
    /\ UNCHANGED <<maps, handles>>
    /\ UNCHANGED <<arenaVars, frameVars>>

\* Teardown #1: sem_destroy.
TearSem(p) ==
    LET r == proc[p].r IN
    /\ proc[p].pc = "td_sem"
    /\ Mapped(p)
    /\ hdr' = [hdr EXCEPT ![r].sem_live = FALSE]
    /\ proc' = [proc EXCEPT ![p].pc = "td_name"]
    /\ obs' = [obs EXCEPT ![r].torn = IF @ < 2 THEN @ + 1 ELSE @,
                          ![r].early = @ \/ HandleExists(r) \/ hdr[r].ref_count > 0
                                         \/ proc[p].tmp # 1]
    /\ UNCHANGED <<maps, handles>>
    /\ UNCHANGED <<arenaVars, frameVars>>

\* Teardown #2: the name and the size are copied out of the header.
TearName(p) ==
    /\ proc[p].pc = "td_name"
    /\ Mapped(p)
    /\ proc' = [proc EXCEPT ![p].pc = "td_unmap"]
    /\ UNCHANGED <<hdr, maps, handles, obs>>
    /\ UNCHANGED <<arenaVars, frameVars>>

\* Teardown #3: munmap, in this process.
TearUnmap(p) ==
    /\ proc[p].pc = "td_unmap"
    /\ maps' = maps \ {<<p, proc[p].r>>}
    /\ proc' = [proc EXCEPT ![p].pc = "td_unlink"]
    /\ UNCHANGED <<hdr, handles, obs>>
    /\ UNCHANGED <<arenaVars, frameVars>>

\* Teardown #4: shm_unlink of the name copied out; the destructor returns.
TearUnlink(p) ==
    LET r == proc[p].r IN
    /\ proc[p].pc = "td_unlink"
    /\ hdr[r].linked
    /\ hdr' = [hdr EXCEPT ![r].linked = FALSE]
    /\ proc' = [proc EXCEPT ![p] = Idle]
    /\ obs' = [obs EXCEPT ![r] = Owed(@, 0 - 1)]
    /\ UNCHANGED <<maps, handles>>
    /\ UNCHANGED <<arenaVars, frameVars>>

\* shm_unlink of a name that is already gone returns -1: the destructor
\* throws system_error and nothing catches it.
TearUnlinkFails(p) ==
    /\ proc[p].pc = "td_unlink"
    /\ ~hdr[proc[p].r].linked
    /\ Dies(p)
    /\ UNCHANGED hdr
    /\ UNCHANGED <<arenaVars, frameVars>>

\* A step that touches the header after this process unmapped the segment:
\* the access faults.
Fault(p) ==
    /\ TouchesHeader(p)
    /\ ~Mapped(p)
    /\ Dies(p)
    /\ UNCHANGED hdr
    /\ UNCHANGED <<arenaVars, frameVars>>

\* sem_wait or sem_post on a semaphore that sem_destroy was called on is
\* undefined: besides working as before (TakeSem, CopyDrop, ReleaseDrop) it
\* may fail, and take_sem / drop_sem then throw system_error.
SemFails(p) ==
    /\ proc[p].pc \in {"copy_take", "rel_take", "copy_drop", "rel_drop"}
    /\ Mapped(p)
    /\ ~hdr[proc[p].r].sem_live
    /\ Dies(p)
    /\ UNCHANGED hdr
    /\ UNCHANGED <<arenaVars, frameVars>>

\* operator=(Shared_Allocator<U> &&): the pointers of origin are copied into
\* the target; origin keeps its own, and ref_count is not touched.
MoveAssign(p) ==
    \E dst \in Regions, src \in Regions :
        /\ proc[p].pc = "idle"
        /\ Holds(p, dst)
        /\ Holds(p, src)
        /\ dst = src => handles[p][dst] >= 2
        /\ handles' = IF dst = src THEN handles
                       ELSE [handles EXCEPT ![p][dst] = @ - 1, ![p][src] = @ + 1]
        /\ obs' = [r \in Regions |->
                     IF dst # src /\ r \in {dst, src}
                     THEN NotPlain(obs[r]) ELSE obs[r]]
        /\ UNCHANGED <<hdr, maps, proc>>
        /\ UNCHANGED <<arenaVars, frameVars>>

\* fork(): the child starts with a copy of the parent's objects and with
\* the parent's mappings; no constructor runs.
Fork(p) ==
    \E q \in Procs :
        /\ proc[p].pc = "idle"
        /\ proc[q].pc = "absent"
        /\ HeldAll + Held(p) <= MaxSlots
        /\ proc' = [proc EXCEPT ![q] = Idle]
        /\ handles' = [handles EXCEPT ![q] = handles[p]]
        /\ maps' = maps \cup { <<q, m[2]>> : m \in { x \in maps : x[1] = p } }
        /\ obs' = [r \in Regions |->
                     IF Holds(p, r)
                     THEN NotPlain(obs[r]) ELSE obs[r]]
        /\ UNCHANGED hdr
        /\ UNCHANGED <<arenaVars, frameVars>>

NextShared ==
    \E p \in Procs :
        \/ Create(p)
        \/ CopyBegin(p)
        \/ ReleaseBegin(p)
        \/ TakeSem(p)
        \/ ReadCount(p)
        \/ WriteUp(p)
        \/ WriteDown(p)
        \/ TestCount(p)
        \/ CopyDrop(p)
        \/ ReleaseDrop(p)
        \/ TearSem(p)
        \/ TearName(p)
        \/ TearUnmap(p)
        \/ TearUnlink(p)
        \/ TearUnlinkFails(p)
        \/ Fault(p)
        \/ SemFails(p)
        \/ MoveAssign(p)
        \/ Fork(p)

\* The arena behind the segments is left as constructed.
InitSharedOnly ==
    /\ info = Construct(minimum_memory_size + ArenaUnits * UnitSize + (UnitSize - 8))
    /\ InitArena
    /\ InitShared
    /\ InitFrame

SpecShared == InitSharedOnly /\ [][NextShared]_vars

\* ------------------------------------------- requests that wrap in size_t
\* A caller invokes allocate(n_obj) with n_obj * sizeof(T) beyond SIZE_MAX.
AllocateWrapped ==
    \E n_obj \in WrapObjCounts :
        LET res == allocate(info, mem, n_obj) IN
        /\ res.status = "ok" => Cardinality(live) < MaxWrapLive
        /\ AfterAlloc(res, "allocate", n_obj * SizeofT, n_obj)
        /\ UNCHANGED <<sharedVars, frameVars>>
        /\ scen' = ScenOff

\* A caller invokes allocate_b(n_bytes) with n_bytes + unit_size - 1 beyond
\* SIZE_MAX.
AllocateBWrapped ==
    \E n_bytes \in WrapByteCounts :
        LET res == allocate_b(info, mem, n_bytes) IN
        /\ res.status = "ok" => Cardinality(live) < MaxWrapLive
        /\ AfterAlloc(res, "allocate_b", n_bytes, n_bytes \div SizeofT)
        /\ UNCHANGED <<sharedVars, frameVars>>
        /\ scen' = ScenOff

NextWrap ==
    \/ AllocateWrapped
    \/ AllocateBWrapped
    \/ Deallocate

SpecWrap == Init /\ [][NextWrap]_vars

\* --------------------------------------- pointers deallocate does not own
\* The process goes on after a call (it has not died in one).
Running == last.status \notin {"sigsegv", "hang"} /\ last.op # "deallocate_stale"

\* In-bounds pointers allocate did not return or that were freed since: the
\* unit-aligned addresses of the arena that head no live allocation.
StalePointers ==
    { AddrOf(info, u + 1) : u \in (0 .. ArenaUnits - 1) \ { a.b : a \in live } }

\* A caller hands deallocate an in-bounds pointer it does not own, after the
\* list was built.  The header in front of it holds what the allocator last
\* wrote there.  The list is not walked again afterwards.
DeallocateStale ==
    /\ info.free_list # NULL
    /\ \E ptr \in StalePointers :
        LET res == deallocate(info, mem, ptr, 1) IN
        /\ info' = res.info
        /\ mem' = res.mem
        /\ last' = [op |-> "deallocate_stale", exceeds |-> FALSE,
                    status |-> res.status]
        /\ UNCHANGED live
        /\ UNCHANGED <<sharedVars, frameVars>>
        /\ rt' = NoSnap
        /\ scen' = ScenOff

\* A caller hands deallocate an in-bounds pointer before the list was built:
\* the pointer checks pass and the loop reads through free_list == nullptr.
DeallocateUnbuilt ==
    /\ info.free_list = NULL
    /\ \E ptr \in StalePointers :
        /\ ~PointerRejected(info, ptr, 1)
        /\ last' = [op |-> "deallocate_unbuilt", exceeds |-> FALSE,
                    status |-> "sigsegv"]
        /\ UNCHANGED <<info, mem, live>>
        /\ UNCHANGED <<sharedVars, frameVars>>
        /\ rt' = NoSnap
        /\ scen' = ScenOff

NextMisuse ==
    \/ Running /\ Next
    \/ Running /\ DeallocateStale
    \/ Running /\ DeallocateUnbuilt

SpecMisuse == Init /\ [][NextMisuse]_vars

\* ------------------------------------ several Static_Allocator objects
\* Static_Allocator(void *, size_t): the capacity check throws bad_alloc.
Rejected(capacity) == capacity < minimum_memory_size

\* No second constructor has written the header since the first one did.
Intact == ~(last.op = "construct" /\ last.status = "ok")

\* Static_Allocator(const Static_Allocator &origin): a new object g.
CopyConstruct ==
    \E h \in Objects, g \in Objects :
        /\ Intact
        /\ Exists(h) /\ ~Exists(g)
        /\ sa' = [sa EXCEPT ![g] = [p |-> CopiedPointer(sa[h]), by |-> "copy"]]
        /\ UNCHANGED <<arenaVars, sharedVars, own, via, call>>

\* g = std::move(h) through operator=(Static_Allocator<U> &&).
MoveAssignObject ==
    \E h \in Objects, g \in Objects :
        /\ Intact
        /\ Exists(h) /\ Exists(g)
        /\ h # g
        /\ sa' = [sa EXCEPT ![g] = [p |-> MovedPointer(sa[h]), by |-> "move"]]
        /\ UNCHANGED <<arenaVars, sharedVars, own, via, call>>

\* Static_Allocator(void *, size_t) once more, over the buffer that already
\* holds a header: with the capacity of the first call, or one too small.
ConstructAgain ==
    \E g \in Objects, capacity \in {info.capacity, minimum_memory_size - 1} :
        /\ Intact
        /\ ~Exists(g)
        /\ IF Rejected(capacity)
           THEN /\ last' = [op |-> "construct", exceeds |-> FALSE,
                            status |-> "bad_alloc"]
                /\ UNCHANGED <<info, sa>>
           ELSE /\ last' = [op |-> "construct", exceeds |-> FALSE, status |-> "ok"]
                /\ info' = Construct(capacity)
                /\ sa' = [sa EXCEPT ![g] = Made]
        /\ rt' = NoSnap
        /\ scen' = ScenOff
        /\ UNCHANGED <<mem, live, sharedVars, own, via, call>>

\* allocate(n_obj) called on object h, for one int.
AllocateVia ==
    \E h \in Objects, n_obj \in {1} :
        LET res == allocate(info, mem, n_obj) IN
        /\ Intact
        /\ Exists(h) /\ RefersToArena(h)
        /\ res.status = "ok" => Cardinality(live) < MaxObjectLive
        /\ AfterAlloc(res, "allocate", n_obj * SizeofT, n_obj)
        /\ own' = IF res.status = "ok" THEN h ELSE 0
        /\ via' = <<0, 0>>
        /\ scen' = ScenOff
        /\ UNCHANGED <<sharedVars, sa, call>>

\* deallocate(ptr, n_obj) called on object g, for a live block.
DeallocateVia ==
    \E g \in Objects, a \in live :
        LET ptr == AddrOf(info, a.b + 1)
            res == deallocate(info, mem, ptr, a.n_obj)
        IN
        /\ Intact
        /\ Exists(g) /\ RefersToArena(g)
        /\ res.info.free_size <= InitialFree(info) + MaxOvercount * UnitSize
        /\ info' = res.info
        /\ mem' = res.mem
        /\ last' = [op |-> "deallocate", exceeds |-> FALSE, status |-> res.status]
        /\ live' = IF res.status = "ok" THEN live \ {a} ELSE live
        /\ own' = 0
        /\ via' = IF rt.stage = "alloc" /\ rt.ptr = ptr THEN <<own, g>> ELSE <<0, 0>>
        /\ rt' = NoSnap
        /\ scen' = ScenOff
        /\ UNCHANGED <<sharedVars, sa, call>>

NextObjects ==
    \/ CopyConstruct
    \/ MoveAssignObject
    \/ ConstructAgain
    \/ AllocateVia
    \/ DeallocateVia

SpecObjects == InitSharedOnly /\ [][NextObjects]_vars

\* ------------------------- Shared_Allocator allocate and deallocate steps
\* The segment whose arena the two processes of main() allocate from.
Arena == 1

\* Object counts the two processes ask for: a 2- and a 3-unit request.
RaceCounts == {1, 9}

\* Shared_Allocator::allocate and deallocate with take_sem before and
\* drop_sem after the delegated call.
Guarded(sem) == sem - 1

\* Shared_Allocator::allocate, allocate_b, deallocate: the semaphore after
\* the call is entered. They return d_static_allocator's result and call
\* neither take_sem nor drop_sem.
Delegated(sem) == sem

\* Process p is inside no call, and alive.
Out(p) == call[p].pc = "out"

\* The other process is inside a call.
OtherInside(p) == \E q \in Procs \ {p} : call[q].pc \notin {"out", "hang", "fault"}

\* The allocations the processes hold, as the observer keeps them.
Holdings(c) ==
    { [b |-> c[q].ret, units |-> BlocksNeeded(BytesOf(c[q].n_obj)),
       n_obj |-> c[q].n_obj] : q \in { x \in Procs : c[x].ret \in Units } }

\* The call of p is over: its locals go, what it holds stays.
Leave(p, ret, n_obj) ==
    [NoCallState EXCEPT !.ret = ret, !.n_obj = n_obj, !.over = call[p].over,
                        !.calls = call[p].calls]

\* Parent and child after the constructor and a fork() as in main(): each
\* has the Shared_Allocator object, on the one segment, and neither has
\* called allocate yet.
InitRace ==
    /\ info = Construct(minimum_memory_size + ArenaUnits * UnitSize + (UnitSize - 8))
    /\ InitArena
    /\ InitFrame
    /\ hdr = [r \in Regions |-> IF r = Arena THEN NewHeader ELSE NoHeader]
    /\ maps = { <<p, Arena>> : p \in Procs }
    /\ handles = [p \in Procs |-> [r \in Regions |-> IF r = Arena THEN 1 ELSE 0]]
    /\ proc = [p \in Procs |-> Idle]
    /\ obs = [r \in Regions |-> IF r = Arena THEN NotPlain(NewObs) ELSE NoObs]

RaceFrame == UNCHANGED <<last, rt, scen, maps, handles, proc, obs, sa, own, via>>

\* Shared_Allocator::allocate(n) entered: allocate_b computes n_blocks.
RaceEnter(p) ==
    \E n_obj \in RaceCounts :
        /\ Out(p) /\ Holds(p, Arena) /\ call[p].ret = NULL
        /\ call[p].calls < MaxRaceCalls
        /\ call' = [call EXCEPT ![p] =
                      [@ EXCEPT !.pc = "check", !.op = "allocate",
                                !.n_blocks = BlocksNeeded(BytesOf(n_obj)),
                                !.n_obj = n_obj,
                                !.calls = @ + 1,
                                !.over = @ \/ OtherInside(p)]]
        /\ hdr' = [hdr EXCEPT ![Arena].sem = Delegated(@)]
        /\ UNCHANGED <<info, mem, live>>
        /\ RaceFrame

\* allocate_b: the capacity check reads free_size.
RaceCheck(p) ==
    /\ call[p].pc = "check"
    /\ call' = [call EXCEPT ![p] =
                  IF Insufficient(info, call[p].n_blocks)
                  THEN Leave(p, NULL, 0)
                  ELSE [@ EXCEPT !.pc = "load"]]
    /\ UNCHANGED <<info, mem, live, hdr>>
    /\ RaceFrame

\* allocate_b: last = free_list, compared with NULL.
RaceLoad(p) ==
    /\ call[p].pc = "load"
    /\ call' = [call EXCEPT ![p] =
                  [@ EXCEPT !.lst = info.free_list,
                            !.pc = IF info.free_list = NULL
                                   THEN "build" ELSE "first"]]
    /\ UNCHANGED <<info, mem, live, hdr>>
    /\ RaceFrame

\* allocate_b: the initial list is written; last = head.
RaceBuild(p) ==
    /\ call[p].pc = "build"
    /\ LET st == BuildList(info, mem) IN
       /\ info' = st.info
       /\ mem' = st.mem
       /\ call' = [call EXCEPT ![p] =
                     [@ EXCEPT !.lst = st.info.free_list, !.pc = "first"]]
    /\ UNCHANGED <<live, hdr>>
    /\ RaceFrame

\* allocate_b: curr = last->d.next.
RaceFirst(p) ==
    /\ call[p].pc = "first"
    /\ call' = [call EXCEPT ![p] =
                  [@ EXCEPT !.curr = mem[call[p].lst].next, !.pc = "test"]]
    /\ UNCHANGED <<info, mem, live, hdr>>
    /\ RaceFrame

\* allocate_b: curr->d.size is compared with n_blocks.
RaceTest(p) ==
    /\ call[p].pc = "test"
    /\ LET size == mem[call[p].curr].size IN
       call' = [call EXCEPT ![p] =
                  [@ EXCEPT !.pc = IF size >= call[p].n_blocks
                                   THEN IF size = call[p].n_blocks
                                        THEN "unlink" ELSE "shrink"
                                   ELSE "wrap"]]
    /\ UNCHANGED <<info, mem, live, hdr>>
    /\ RaceFrame

\* allocate_b: exactly enough, last->d.next = curr->d.next.
RaceUnlink(p) ==
    /\ call[p].pc = "unlink"
    /\ mem' = [mem EXCEPT ![call[p].lst].next = mem[call[p].curr].next]
    /\ call' = [call EXCEPT ![p] = [@ EXCEPT !.pc = "rotate"]]
    /\ UNCHANGED <<info, live, hdr>>
    /\ RaceFrame

\* allocate_b: more than enough, curr->d.size -= n_blocks (in size_t).
RaceShrink(p) ==
    /\ call[p].pc = "shrink"
    /\ mem' = [mem EXCEPT ![call[p].curr].size = (@ - call[p].n_blocks) % SizeMod]
    /\ call' = [call EXCEPT ![p] = [@ EXCEPT !.pc = "advance"]]
    /\ UNCHANGED <<info, live, hdr>>
    /\ RaceFrame

\* allocate_b: curr += curr->d.size, with the size as it is read now.
RaceAdvance(p) ==
    /\ call[p].pc = "advance"
    /\ call' = [call EXCEPT ![p] =
                  [@ EXCEPT !.curr = @ + mem[call[p].curr].size, !.pc = "stamp"]]
    /\ UNCHANGED <<info, mem, live, hdr>>
    /\ RaceFrame

\* allocate_b: curr->d.size = n_blocks. Where curr has left the buffer the
\* store is undefined: it hits memory that is no block header and the call
\* goes on, or the process is ended by a signal.
RaceStamp(p) ==
    /\ call[p].pc = "stamp"
    /\ IF call[p].curr \in Units
       THEN /\ mem' = [mem EXCEPT ![call[p].curr].size = call[p].n_blocks]
            /\ call' = [call EXCEPT ![p] = [@ EXCEPT !.pc = "rotate"]]
       ELSE /\ mem' = mem
            /\ \E pc \in {"rotate", "fault"} :
                  call' = [call EXCEPT ![p] = [@ EXCEPT !.pc = pc]]
    /\ UNCHANGED <<info, live, hdr>>
    /\ RaceFrame

\* allocate_b: free_list = last.
RaceRotate(p) ==
    /\ call[p].pc = "rotate"
    /\ info' = [info EXCEPT !.free_list = call[p].lst]
    /\ call' = [call EXCEPT ![p] = [@ EXCEPT !.pc = "take_read"]]
    /\ UNCHANGED <<mem, live, hdr>>
    /\ RaceFrame

\* allocate_b: free_size -= n_blocks * unit_size, the read.
RaceTakeRead(p) ==
    /\ call[p].pc = "take_read"
    /\ call' = [call EXCEPT ![p] =
                  [@ EXCEPT !.tmp = info.free_size, !.pc = "take_write"]]
    /\ UNCHANGED <<info, mem, live, hdr>>
    /\ RaceFrame

\* allocate_b: free_size -= n_blocks * unit_size, the write.
RaceTakeWrite(p) ==
    /\ call[p].pc = "take_write"
    /\ info' = [info EXCEPT !.free_size = TakeBytes(call[p].tmp, call[p].n_blocks)]
    /\ call' = [call EXCEPT ![p] = [@ EXCEPT !.pc = "return"]]
    /\ UNCHANGED <<mem, live, hdr>>
    /\ RaceFrame

\* allocate_b: return curr + 1.
RaceReturn(p) ==
    /\ call[p].pc = "return"
    /\ call' = [call EXCEPT ![p] = Leave(p, call[p].curr, call[p].n_obj)]
    /\ live' = Holdings(call')
    /\ UNCHANGED <<info, mem, hdr>>
    /\ RaceFrame

\* allocate_b: not enough at curr; null if curr is free_list (as it is read
\* now), else last = curr, curr = curr->d.next.
RaceWrap(p) ==
    /\ call[p].pc = "wrap"
    /\ call' = [call EXCEPT ![p] =
                  IF call[p].curr = info.free_list
                  THEN Leave(p, NULL, 0)
                  ELSE [@ EXCEPT !.lst = call[p].curr,
                                 !.curr = mem[call[p].curr].next,
                                 !.pc = "test"]]
    /\ UNCHANGED <<info, mem, live, hdr>>
    /\ RaceFrame

\* Shared_Allocator::deallocate(ptr, n) for the block the process holds,
\* taken as one step (it may fall between two steps of the other process).
RaceDeallocate(p) ==
    /\ Out(p) /\ Holds(p, Arena) /\ call[p].ret \in Units
    /\ call[p].calls < MaxRaceCalls
    /\ LET res == deallocate(info, mem, AddrOf(info, call[p].ret + 1),
                             call[p].n_obj)
       IN
       /\ info' = res.info
       /\ mem' = res.mem
       /\ call' = [call EXCEPT ![p] =
                     [Leave(p, NULL, 0) EXCEPT
                         !.pc = IF res.status = "hang" THEN "hang" ELSE "out",
                         !.calls = @ + 1,
                         !.over = @ \/ OtherInside(p)]]
    /\ live' = Holdings(call')
    /\ hdr' = [hdr EXCEPT ![Arena].sem = Delegated(@)]
    /\ RaceFrame

NextRace ==
    \E p \in Procs :
        \/ RaceEnter(p)
        \/ RaceCheck(p)
        \/ RaceLoad(p)
        \/ RaceBuild(p)
        \/ RaceFirst(p)
        \/ RaceTest(p)
        \/ RaceUnlink(p)
        \/ RaceShrink(p)
        \/ RaceAdvance(p)
        \/ RaceStamp(p)
        \/ RaceRotate(p)
        \/ RaceTakeRead(p)
        \/ RaceTakeWrite(p)
        \/ RaceReturn(p)
        \/ RaceWrap(p)
        \/ RaceDeallocate(p)

SpecRace == InitRace /\ [][NextRace]_vars

\* ------------------------------- copies and destructors after the fork()
\* A step of a copy construction or destructor that process p is inside.
InProgress(p) ==
    \/ TakeSem(p)
    \/ ReadCount(p)
    \/ WriteUp(p)
    \/ WriteDown(p)
    \/ TestCount(p)
    \/ CopyDrop(p)
    \/ ReleaseDrop(p)
    \/ TearSem(p)
    \/ TearName(p)
    \/ TearUnmap(p)
    \/ TearUnlink(p)
    \/ TearUnlinkFails(p)
    \/ Fault(p)
    \/ SemFails(p)

\* Parent and child, each with the object it has after the fork(), copy
\* and destroy objects on the one segment.
NextSem ==
    \E p \in Procs :
        \/ CopyBegin(p)
        \/ ReleaseBegin(p)
        \/ InProgress(p)

\* A process inside a constructor or destructor goes on running: a step it
\* can take for good is taken. sem_wait returns when the semaphore stays
\* available; POSIX promises no more to a waiter that is overtaken.
SpecSem ==
    /\ InitRace
    /\ [][NextSem]_vars
    /\ \A p \in Procs : WF_vars(InProgress(p))

\* ================================================================ claims
\* free_list has been built.
Built == info.free_list # NULL

\* C1 (conservation): between calls, free_size() plus the bytes of the live
\* allocations (whole units) equals the free-byte count the constructor set.
C1_Conservation ==
    free_size(info) + LiveBytes = InitialFree(info)

\* C2 (coalescing): after three allocations of the same object count from a
\* fresh arena and the deallocation of all three, in any order, unified() is
\* true and free_size() is back at its value before the allocations.
C2_Coalescing ==
    scen.stage = 6 =>
        /\ unified(info, mem)
        /\ free_size(info) = InitialFree(info)

\* C3 (round trip): a successful allocate followed at once by deallocate of
\* the pointer it returned restores free_size() and the same free blocks
\* (unit and size): those of the list before the pair or, where the pair
\* built the list, the one block the list starts with; if nothing was live
\* before the pair, unified() is true after it.
C3_RoundTrip ==
    rt.stage = "done" =>
        /\ free_size(info) = rt.free_size
        /\ rt.built => FreeBlocks(info, mem) = rt.blocks
        /\ ~rt.built => FreeBlocks(info, mem) = {<<1, rt.free_size \div UnitSize>>}
        /\ rt.nolive => unified(info, mem)

\* C3 witness: a round trip completed on a built list with other
\* allocations live and more than one free block.
C3_Witness ==
    /\ rt.stage = "done"
    /\ rt.built
    /\ ~rt.nolive
    /\ Cardinality(rt.blocks) >= 2

\* C4 (exhaustion): an allocate / allocate_b request for more bytes than
\* free_size() reports returns null, throws nothing, and leaves the header
\* and the block headers as they were.
C4_Exhaustion ==
    [][ (last'.op \in {"allocate", "allocate_b"} /\ last'.exceeds)
            => (last'.status = "null" /\ info' = info /\ mem' = mem) ]_vars

\* C5 (bounds enforcement): deallocate of a pointer this arena's allocate
\* did not return, or that is no longer live, throws invalid_argument and
\* leaves the header and the block headers as they were.
C5_BoundsEnforcement ==
    [][ last'.op \in {"deallocate_outside", "deallocate_stale", "deallocate_unbuilt"}
            => (last'.status = "invalid_argument" /\ info' = info /\ mem' = mem) ]_vars

\* C10 (unified): once the list is built, unified() is true exactly when the
\* list holds one block besides the zero-size head, and that is so exactly
\* when no allocation is live.
C10_Unified ==
    Built =>
        /\ unified(info, mem) <=> (Cardinality(FreeBlocks(info, mem)) = 1)
        /\ (Cardinality(FreeBlocks(info, mem)) = 1) <=> (live = {})

\* No constructor or destructor is at work on segment r.
Quiescent(r) == \A p \in Procs : proc[p].r # r

\* ref_count holds a value that a decrement below zero left.
Wrapped(rc) == rc >= UIntMod - MaxSlots

\* C6 (reference-count invariant): while some object, in any process, refers
\* to a segment's header, that header's ref_count is at least 1 and is not
\* a value wrapped below zero.
C6_RefCount ==
    \A r \in Regions :
        HandleExists(r) =>
            /\ hdr[r].ref_count >= 1
            /\ ~Wrapped(hdr[r].ref_count)

\* C7 (teardown exactly once): a segment's teardown begins at most once, by
\* the destructor whose decrement took ref_count from 1 to 0, never while
\* ref_count is positive or another object refers to the segment, and no
\* destructor takes the semaphore of a segment torn down before.
C7_TeardownOnce ==
    \A r \in Regions :
        /\ obs[r].torn <= 1
        /\ ~obs[r].early
        /\ ~obs[r].late

\* C8 (counting scenario): in a segment that has seen its constructor, k
\* copy constructions and j destructors and nothing else, between calls:
\* while j <= k, ref_count is 1 + k - j, the creating process still maps the
\* segment and its name exists; after the (k+1)-th destructor ref_count is 0,
\* the name is unlinked, and the segment was torn down once.
C8_CountScenario ==
    \A r \in Regions :
        (hdr[r].made /\ obs[r].plain /\ Quiescent(r)) =>
            /\ obs[r].owed >= 1 =>
                  /\ hdr[r].ref_count = obs[r].owed
                  /\ hdr[r].linked /\ hdr[r].sem_live /\ obs[r].torn = 0
                  /\ \E p \in Procs : <<p, r>> \in maps /\ handles[p][r] = obs[r].owed
            /\ obs[r].owed = 0 =>
                  /\ hdr[r].ref_count = 0
                  /\ ~hdr[r].linked /\ ~hdr[r].sem_live /\ obs[r].torn = 1
                  /\ ~HandleExists(r)

\* C8 witness: a segment was created, copied up to MaxSlots objects, and
\* every one of them was destroyed.
C8_Witness ==
    \E r \in Regions :
        /\ hdr[r].made /\ obs[r].plain /\ Quiescent(r)
        /\ obs[r].peak = MaxSlots
        /\ obs[r].owed = 0
        /\ ~hdr[r].linked

\* C9 (no lost updates): at most one process is between take_sem and
\* drop_sem of a header, the semaphore's value is 0 while one is; ref_count
\* is its initial 1 plus the increments stored minus the decrements stored
\* (in unsigned int); and a destructor's destroy flag is whether its own
\* decrement produced 0.
C9_NoLostUpdate ==
    \A r \in Regions :
        /\ Cardinality({ p \in Procs : InSection(p, r) }) <= 1
        /\ \A p \in Procs : InSection(p, r) => hdr[r].sem = 0
        /\ hdr[r].made => hdr[r].ref_count = obs[r].expect
        /\ \A p \in Procs :
              (proc[p].r = r /\ proc[p].pc = "rel_drop")
                  => (proc[p].destroy <=> DecRef(proc[p].tmp) = 0)

\* C9 witness: one process is between the load and the store of its
\* decrement while the other waits in take_sem of a copy construction on
\* the same header.
C9_Witness ==
    \E r \in Regions :
        /\ proc[1].r = r /\ proc[1].pc = "rel_write"
        /\ proc[2].r = r /\ proc[2].pc = "copy_take"
        /\ <<2, r>> \in maps

\* C11 (free-list shape): once built, the free list is one cycle (every node
\* has its successor and exactly one predecessor among the nodes), every
\* link but one goes to a higher address, free_list is a node of it, and
\* for no node f is f + f.size the address of another node.
C11_ListShape ==
    Built =>
        LET N == ListNodes(info, mem) IN
        /\ info.free_list \in N
        /\ \A u \in N : mem[u].next \in N
        /\ \A u \in N : Cardinality({ v \in N : mem[v].next = u }) = 1
        /\ Cardinality({ u \in N : mem[u].next <= u }) = 1
        /\ \A u \in N : \A v \in N \ {u} : u + mem[u].size # v

\* C11 witness: a deallocate has just left a list of the head and two free
\* blocks with an allocation between them.
C11_Witness ==
    /\ last.op = "deallocate" /\ last.status = "ok"
    /\ Cardinality(ListNodes(info, mem)) = 3
    /\ live # {}

C13_InitialisedOnce ==
    [][(live # {} /\ \E g \in Objects : ~Exists(g) /\ sa'[g].by # "none")
            => (info'.free_size = info.free_size /\ info'.free_list = info.free_list)]_vars

\* The Shared_Allocator objects, over all processes, that refer to segment r
\* and whose destructors will decrement its ref_count.
Holders(r) == SumOver([p \in Procs |-> handles[p][r]], Procs)

\* C14 (transfer keeps the count): a move assignment leaves every header's
\* ref_count as it was and leaves, for every header, the number of objects
\* that will release it as it was.
C14_TransferKeepsCount ==
    [][(\E p \in Procs : MoveAssign(p))
            => \A r \in Regions :
                  /\ hdr'[r].ref_count = hdr[r].ref_count
                  /\ Holders(r)' = Holders(r)]_vars

\* C15 (splitting): for every request that passes the checks in a reachable
\* state, if the first block of the walk that is large enough is larger
\* than the request, the block returned is its highest n_blocks units, the
\* pointer returned is one unit past the returned block's header, the block
\* found stays a node at its address, with its link, and with its size
\* reduced by n_blocks, and the list has the nodes it had.
C15_Splitting ==
    \A n_obj \in Passing :
        LET st  == Searched(info, mem)
            nb  == BlocksNeeded(BytesOf(n_obj))
            i   == FirstFitIndex(st.info, st.mem, nb)
            f   == SearchOrder(st.info, st.mem)[i]
            res == allocate(info, mem, n_obj)
        IN  (i # 0 /\ st.mem[f].size > nb) =>
                /\ res.status = "ok"
                /\ res.blk = f + st.mem[f].size - nb
                /\ res.mem[res.blk].size = nb
                /\ res.ptr = AddrOf(info, res.blk + 1)
                /\ res.mem[f].size = st.mem[f].size - nb
                /\ res.mem[f].next = st.mem[f].next
                /\ ListNodes(res.info, res.mem) = ListNodes(st.info, st.mem)
                /\ res.info.free_size = TakeBytes(info.free_size, nb)

\* C15 witness: two equal allocations were made from a fresh arena, both
\* cut from the one initial block, and the list still is the head and that
\* block.
C15_Witness ==
    /\ scen.stage = 2
    /\ last.op = "allocate" /\ last.status = "ok"
    /\ Cardinality(live) = 2
    /\ Cardinality(FreeBlocks(info, mem)) = 1
    /\ \E a \in live : \E f \in FreeBlocks(info, mem) : f[1] + f[2] = a.b

\* C16 (lazy construction): the constructor rejects every capacity below
\* the header plus two units and no other; until a request passes the zero
\* and capacity checks the header is as the constructor wrote it, with
\* free_size = capacity - overhead and no list; the list such a request
\* finds built is the zero-size head linked to one block of
\* floor(free_size / unit) units that ends inside the buffer, linked back;
\* a list comes into being only in a successful allocate, and once there
\* is one there always is.
C16_LazyList ==
    /\ [](/\ \A c \in 0 .. minimum_memory_size - 1 : Rejected(c)
          /\ ~Rejected(minimum_memory_size) /\ ~Rejected(info.capacity)
          /\ ~Built =>
                /\ info = Construct(info.capacity)
                /\ info.free_size = info.capacity - (InfoSize + 2 * UnitSize)
                /\ \A n_obj \in Passing :
                      LET st == Searched(info, mem) IN
                      /\ st.info.free_list = 0
                      /\ st.mem[0] = [next |-> 1, size |-> 0]
                      /\ st.mem[1] = [next |-> 0,
                                      size |-> info.free_size \div UnitSize]
                      /\ AddrOf(info, 0) = info.static_memory_map + InfoSize
                      /\ AddrOf(info, 1 + st.mem[1].size)
                            <= info.static_memory_map + info.capacity
                      /\ allocate(info, mem, n_obj).info.free_list # NULL)
    /\ [][(~Built /\ Built')
            => (last'.op \in {"allocate", "allocate_b"} /\ last'.status = "ok")]_vars
    /\ [][Built => Built']_vars

\* C16 witness: the first call ever made was an allocate that succeeded and
\* built the list.
C16_Witness ==
    /\ scen.stage = 1
    /\ Built
    /\ last.op = "allocate" /\ last.status = "ok"
    /\ mem[0].size = 0

\* The units a block of the given size at unit u takes up.
Span(u, size) == u .. (u + size - 1)

\* C17 (no overlap): every live allocation has its size in its header,
\* starts behind the arena header and the list head and ends inside the
\* buffer; no two live allocations share a unit, and none shares a unit
\* with a free block or with the list head.
C17_NoOverlap ==
    /\ \A a \in live :
          /\ mem[a.b].size = a.units
          /\ AddrOf(info, a.b) >= info.static_memory_map + InfoSize + UnitSize
          /\ AddrOf(info, a.b + a.units) <= info.static_memory_map + info.capacity
          /\ 0 \notin Span(a.b, a.units)
          /\ \A f \in FreeBlocks(info, mem) :
                Span(a.b, a.units) \cap Span(f[1], f[2]) = {}
    /\ \A a \in live : \A c \in live \ {a} :
          Span(a.b, a.units) \cap Span(c.b, c.units) = {}

\* C17 witness: after a deallocate, two allocations are live with a free
\* block between or beside them.
C17_Witness ==
    /\ last.op = "deallocate" /\ last.status = "ok"
    /\ Cardinality(live) = 2
    /\ Cardinality(FreeBlocks(info, mem)) >= 1
    /\ \E f \in FreeBlocks(info, mem) : f[2] >= 2

\* Both processes are between calls.
AllOut == \A p \in Procs : Out(p)

\* No call of either process ever began while the other was inside one.
NeverOverlapped == \A p \in Procs : ~call[p].over

\* What the processes hold lies in the buffer, apart from each other, from
\* the free blocks and from the list head, and the list has its shape.
ArenaSound ==
    /\ C11_ListShape
    /\ \A p \in Procs : call[p].ret # NULL =>
          LET units == BlocksNeeded(BytesOf(call[p].n_obj)) IN
          /\ call[p].ret \in Units \ {0}
          /\ call[p].ret + units - 1 \in Units
          /\ mem[call[p].ret].size = units
          /\ \A f \in FreeBlocks(info, mem) :
                Span(call[p].ret, units) \cap Span(f[1], f[2]) = {}
    /\ \A p \in Procs : \A q \in Procs \ {p} :
          call[p].ret # NULL /\ call[q].ret # NULL =>
             Span(call[p].ret, BlocksNeeded(BytesOf(call[p].n_obj)))
                \cap Span(call[q].ret, BlocksNeeded(BytesOf(call[q].n_obj))) = {}

\* C18 (unguarded allocation races): the semaphore of the segment stays at
\* its initial 1 through every allocate and deallocate of the two
\* processes, and as long as no call began while the other process was
\* inside one the arena is sound between calls; the witness is a state
\* between calls, reached by interleaved calls, where it is not.
C18_UnguardedRaces ==
    /\ hdr[Arena].sem = 1
    /\ AllOut /\ NeverOverlapped => ArenaSound

\* C18 witness: both processes are back from allocate and the blocks they
\* were given share a unit.
C18_Witness ==
    /\ AllOut
    /\ hdr[Arena].sem = 1
    /\ call[1].ret \in Units /\ call[2].ret \in Units
    /\ Span(call[1].ret, BlocksNeeded(BytesOf(call[1].n_obj)))
          \cap Span(call[2].ret, BlocksNeeded(BytesOf(call[2].n_obj))) # {}

\* C19 (termination): between sequential valid calls, for every request
\* that gets past the checks the loop of allocate_b examines list nodes
\* only, none twice, and ends at a node that is large enough or, with every
\* node examined, at free_list (the null result); for every live block the
\* loop of deallocate visits list nodes only, none twice, and ends at a
\* node p that brackets the block or is the wrap-around node.
C19_Termination ==
    [](
        /\ \A n_blocks \in PassingBlocks :
              LET st  == Searched(info, mem)
                  N   == ListNodes(st.info, st.mem)
                  seq == Examined(st.info, st.mem, st.mem[st.info.free_list].next,
                                  n_blocks, WalkFuel)
                  end == seq[Len(seq)]
                  res == Search(st.info, st.mem, st.info.free_list,
                                st.mem[st.info.free_list].next, n_blocks)
              IN  /\ Range(seq) \subseteq N
                  /\ NoRepeat(seq)
                  /\ Len(seq) <= Cardinality(N)
                  /\ IF st.mem[end].size >= n_blocks
                     THEN res.status = "ok"
                     ELSE /\ res.status = "null"
                          /\ end = st.info.free_list
                          /\ Range(seq) = N
        /\ Built =>
              \A a \in live :
                 LET N   == ListNodes(info, mem)
                     seq == Scanned(mem, info.free_list, a.b, WalkFuel)
                     p   == seq[Len(seq)]
                 IN  /\ Range(seq) \subseteq N
                     /\ NoRepeat(seq)
                     /\ Len(seq) <= Cardinality(N)
                     /\ Locate(mem, info.free_list, a.b) = p
                     /\ \/ p < a.b /\ a.b < mem[p].next
                        \/ mem[p].next <= p /\ (a.b > p \/ a.b < mem[p].next)
                     /\ deallocate(info, mem, AddrOf(info, a.b + 1), a.n_obj).status = "ok"
      )

\* C19 witness: an allocate that passed the capacity check has just gone
\* round a list of three or more nodes and returned null, and a live block
\* is there whose deallocate will visit more than one node.
C19_Witness ==
    /\ last.op = "allocate" /\ last.status = "null" /\ ~last.exceeds
    /\ \A n_obj \in ObjCounts :
          n_obj # 0 /\ n_obj * SizeofT <= free_size(info) => n_obj \in Passing
    /\ Cardinality(ListNodes(info, mem)) >= 3
    /\ \E a \in live : Len(Scanned(mem, info.free_list, a.b, WalkFuel)) >= 2

\* The node of the list, as the call found it, that the block handed out
\* was taken from.
FoundFor(st, blk) ==
    CHOOSE u \in ListNodes(st.info, st.mem) : blk \in Span(u, st.mem[u].size)

\* C20 as stated (first fit with rotating start): the walk of the next
\* allocate starts at the node just after the block that satisfied the
\* previous request.
C20_StartsAfterFound ==
    [][\A a \in live' \ live :
          LET st == Searched(info, mem)
              f  == FoundFor(st, a.b)
          IN  mem'[info'.free_list].next = st.mem[f].next]_vars

\* C20 (first fit with rotating start), amended: the walk starts at
\* free_list->next and ends at free_list; a request that passes the checks
\* gets the first node in that order with at least n_blocks units, and
\* free_list becomes that node's predecessor, so that the next walk starts
\* at the remainder of the node if it was split and at its successor if it
\* was unlinked; with no such node the result is null; a request that fails
\* the capacity check gets null with no walk and nothing written; a
\* deallocate sets free_list to its insertion point.
C20_FirstFitRotating ==
    /\ [](/\ \A n_blocks \in PassingBlocks :
                LET st  == Searched(info, mem)
                    ord == SearchOrder(st.info, st.mem)
                    i   == FirstFitIndex(st.info, st.mem, n_blocks)
                    res == Search(st.info, st.mem, st.info.free_list,
                                  st.mem[st.info.free_list].next, n_blocks)
                IN  /\ ord[1] = st.mem[st.info.free_list].next
                    /\ ord[Len(ord)] = st.info.free_list
                    /\ Range(ord) = ListNodes(st.info, st.mem)
                    /\ IF i = 0
                       THEN /\ res.status = "null"
                            /\ res.info = st.info /\ res.mem = st.mem
                       ELSE LET f    == ord[i]
                                pred == IF i = 1 THEN st.info.free_list ELSE ord[i - 1]
                            IN  /\ res.status = "ok"
                                /\ \A j \in 1 .. (i - 1) : st.mem[ord[j]].size < n_blocks
                                /\ res.blk \in Span(f, st.mem[f].size)
                                /\ st.mem[pred].next = f
                                /\ res.info.free_list = pred
                                /\ res.mem[pred].next =
                                      IF st.mem[f].size = n_blocks
                                      THEN st.mem[f].next ELSE f
          /\ \A n_obj \in ObjCounts \ Passing :
                BytesOf(n_obj) # 0 =>
                   LET res == allocate(info, mem, n_obj) IN
                   res.status = "null" /\ res.info = info /\ res.mem = mem)
    /\ [][(last'.op = "deallocate" /\ last'.status = "ok") =>
             \E a \in live \ live' :
                info'.free_list = Locate(mem, info.free_list, a.b)]_vars

\* C20 witness: the last allocate took a block although a free block at a
\* lower address, still in the list as it was, was large enough.
C20_Witness ==
    /\ last.op = "allocate" /\ last.status = "ok"
    /\ rt.stage = "alloc"
    /\ \E a \in live :
          /\ AddrOf(info, a.b + 1) = rt.ptr
          /\ \E f \in rt.blocks \cap FreeBlocks(info, mem) :
                f[2] >= a.units /\ f[1] < a.b

\* Process p goes from the step at pc `from` to the one at pc `to`.
Steps(p, from, to) == proc[p].pc = from /\ proc'[p].pc = to

\* C21 as stated (release protocol): the semaphore has been given back when
\* the destructor inspects whether the decremented count is zero.
C21_DropBeforeInspect ==
    [][\A p \in Procs :
          Steps(p, "rel_test", "rel_drop") => hdr[proc[p].r].sem > 0]_vars

\* C21 (release protocol), amended: the destructor stores ref_count less
\* one, and compares the stored count with zero, while it holds the
\* semaphore (value 0); it gives the semaphore back, changing nothing else,
\* before it acts on the outcome; with a count that is not zero it returns
\* there, the semaphore, the mapping and the name left as they were; with
\* zero it goes on to sem_destroy, the copy of name and size, munmap and
\* shm_unlink in that order, each changing only what is its own, and no
\* step after munmap touches the header.
C21_ReleaseProtocol ==
    /\ [][\A p \in Procs :
             LET r == proc[p].r IN
             /\ Steps(p, "rel_write", "rel_test") =>
                   /\ hdr[r].sem = 0
                   /\ hdr'[r] = [hdr[r] EXCEPT !.ref_count = (@ - 1) % UIntMod]
                   /\ maps' = maps
             /\ Steps(p, "rel_test", "rel_drop") =>
                   /\ hdr[r].sem = 0
                   /\ proc'[p].destroy = (hdr[r].ref_count = 0)
                   /\ hdr' = hdr /\ maps' = maps
             /\ proc[p].pc = "rel_drop" /\ proc'[p].pc \in {"idle", "td_sem"} =>
                   /\ hdr'[r] = [hdr[r] EXCEPT !.sem = @ + 1]
                   /\ maps' = maps
                   /\ proc'[p].pc = "td_sem" <=> proc[p].destroy
                   /\ proc[p].destroy <=> hdr[r].ref_count = 0
             /\ Steps(p, "td_sem", "td_name") =>
                   /\ hdr'[r] = [hdr[r] EXCEPT !.sem_live = FALSE]
                   /\ maps' = maps
             /\ Steps(p, "td_name", "td_unmap") =>
                   /\ hdr' = hdr /\ maps' = maps
                   /\ <<p, r>> \in maps
             /\ Steps(p, "td_unmap", "td_unlink") =>
                   /\ hdr' = hdr
                   /\ maps' = maps \ {<<p, r>>}
             /\ Steps(p, "td_unlink", "idle") =>
                   /\ hdr'[r] = [hdr[r] EXCEPT !.linked = FALSE]
                   /\ maps' = maps
             /\ proc'[p].pc = "td_sem" => proc[p].pc \in {"rel_drop", "td_sem"}
             /\ proc'[p].pc = "td_name" => proc[p].pc \in {"td_sem", "td_name"}
             /\ proc'[p].pc = "td_unmap" => proc[p].pc \in {"td_name", "td_unmap"}
             /\ proc'[p].pc = "td_unlink" => proc[p].pc \in {"td_unmap", "td_unlink"}]_vars
    /\ [](\A p \in Procs :
             proc[p].pc \in {"td_unmap", "td_unlink"} => ~TouchesHeader(p))
    /\ [](\A p \in Procs :
             proc[p].pc = "td_unlink" => ~Mapped(p) /\ ~hdr[proc[p].r].sem_live)

\* C21 witness: after a copy construction and a destructor that left the
\* count above zero, the last destructor has destroyed the semaphore and
\* unmapped the segment and is about to unlink the name.
C21_Witness ==
    \E p \in Procs : \E r \in Regions :
        /\ proc[p].r = r /\ proc[p].pc = "td_unlink"
        /\ obs[r].plain /\ obs[r].peak >= 2 /\ obs[r].owed = 1
        /\ hdr[r].ref_count = 0
        /\ ~hdr[r].sem_live /\ hdr[r].sem = 1
        /\ <<p, r>> \notin maps
        /\ hdr[r].linked

\* C22 (block count arithmetic): every live allocation has at least the
\* bytes asked for behind its header unit (n_obj * sizeof(T), not reduced
\* modulo the width of size_t), and no allocate or allocate_b asking for
\* more than free_size() is answered with invalid_argument, the report of a
\* zero-byte request.
C22_BlockCount ==
    /\ [](\A a \in live : (a.units - 1) * UnitSize >= a.n_obj * SizeofT)
    /\ [][(last'.op \in {"allocate", "allocate_b"} /\ last'.exceeds)
             => last'.status # "invalid_argument"]_vars

\* C23 (sentinel permanence): once the list is built the zero-size head at
\* unit 0 is a node of it with size 0 and no live allocation covers it; no
\* request that passes the checks is given the head or changes its size;
\* and the deallocate of any live block leaves the head a node of size 0,
\* with the freed block, where it starts at unit 1, a node of its own that
\* the head links to.
C23_SentinelStays ==
    [](
        /\ Built =>
              /\ 0 \in ListNodes(info, mem)
              /\ mem[0].size = 0
              /\ \A a \in live : a.b # 0 /\ 0 \notin Span(a.b, a.units)
              /\ \A a \in live :
                    LET res == deallocate(info, mem, AddrOf(info, a.b + 1), a.n_obj) IN
                    /\ res.status = "ok"
                    /\ 0 \in ListNodes(res.info, res.mem)
                    /\ res.mem[0].size = 0
                    /\ a.b = 1 => /\ res.mem[0].next = 1
                                  /\ 1 \in ListNodes(res.info, res.mem)
                                  /\ res.mem[1].size >= a.units
        /\ \A n_blocks \in PassingBlocks :
              LET st  == Searched(info, mem)
                  res == Search(st.info, st.mem, st.info.free_list,
                                st.mem[st.info.free_list].next, n_blocks)
              IN  /\ st.mem[0].size = 0
                  /\ res.mem[0].size = 0
                  /\ 0 \in ListNodes(res.info, res.mem)
                  /\ res.status = "ok" => res.blk # 0 /\ res.ptr # AddrOf(info, 1)
      )

\* C23 witness: the block at unit 1, right behind the head, was allocated
\* and has just been freed, and the head still is a node of size 0 linked
\* to it.
C23_Witness ==
    /\ last.op = "deallocate" /\ last.status = "ok"
    /\ rt.stage = "done" /\ rt.ptr = AddrOf(info, 2)
    /\ mem[0].size = 0 /\ mem[0].next = 1
    /\ 0 \in ListNodes(info, mem) /\ 1 \in ListNodes(info, mem)

\* Process p has entered a copy construction or a destructor and has not
\* stored its new ref_count yet.
Updating(p) ==
    proc[p].pc \in {"copy_take", "copy_read", "copy_write",
                    "rel_take", "rel_read", "rel_write"}

\* sem_destroy has been called on the semaphore of the segment p works on,
\* or p has died.
TornDown(p) == proc[p].pc = "dead" \/ ~hdr[Arena].sem_live

\* C24 as stated (semaphore protocol): with every process inside an
\* operation going on running (weak fairness), a copy construction or
\* destructor that has started stores its ref_count, unless the segment is
\* torn down.
C24_CompletesUnderWeakFairness ==
    \A p \in Procs : Updating(p) ~> (~Updating(p) \/ TornDown(p))

\* C24 (semaphore protocol), amended: the semaphore starts at 1 and is 0 or
\* 1 ever after; at most one process is between take_sem and drop_sem;
\* between the two a process does nothing but load and store ref_count (and
\* compare it), and leaves only by drop_sem, which adds 1 to the semaphore;
\* while the segment is not torn down some process can always take a step
\* when one is inside an operation (no deadlock); and if sem_wait is
\* strongly fair (a waiter that finds the semaphore available again and
\* again gets it), every copy construction or destructor that has started
\* stores its ref_count unless the segment is torn down. Weak fairness
\* alone lets the other process take the semaphore every time.
C24_SemaphoreProtocol ==
    /\ hdr[Arena] = NewHeader /\ NewHeader.sem = 1 /\ NewHeader.sem_live
    /\ [](hdr[Arena].sem \in {0, 1})
    /\ [](Cardinality({ p \in Procs : InSection(p, Arena) }) <= 1)
    /\ [](\A p \in Procs : InSection(p, Arena) => hdr[Arena].sem = 0)
    /\ [][\A p \in Procs :
             (InSection(p, Arena) /\ proc'[p] # proc[p] /\ hdr[Arena].sem_live) =>
                /\ maps' = maps
                /\ \/ /\ InSection(p, Arena)'
                      /\ hdr'[Arena] = [hdr[Arena] EXCEPT
                                           !.ref_count = hdr'[Arena].ref_count]
                   \/ /\ proc[p].pc \in {"copy_drop", "rel_drop"}
                      /\ ~InSection(p, Arena)'
                      /\ hdr'[Arena] = [hdr[Arena] EXCEPT !.sem = @ + 1]]_vars
    /\ []((hdr[Arena].sem_live /\ \E p \in Procs : Updating(p))
             => \E p \in Procs : ENABLED InProgress(p))
    /\ (\A p \in Procs : SF_vars(TakeSem(p)))
          => \A p \in Procs : Updating(p) ~> (~Updating(p) \/ TornDown(p))

\* C24 witness: one process is between take_sem and drop_sem of a copy
\* construction while the other waits in take_sem of a destructor, the
\* semaphore not destroyed.
C24_Witness ==
    /\ proc[1].pc = "copy_write" /\ proc[1].r = Arena
    /\ proc[2].pc = "rel_take" /\ proc[2].r = Arena
    /\ hdr[Arena].sem = 0 /\ hdr[Arena].sem_live
    /\ <<2, Arena>> \in maps

====
